---------------------------- MODULE Spec2Model ----------------------------
(***************************************************************************)
(* A model of themix's ThemeManager (src/src/index.ts): the constructor,   *)
(* generateTheme, appendVariants, createLogger and parseFromJson, together *)
(* with the caller's in-place mutation of the colour mapping it handed to  *)
(* the constructor.                                                        *)
(*                                                                         *)
(* Representation.                                                         *)
(*  - A token is the sequence of its dot-separated segments:               *)
(*    "button.bg" is <<"button", "bg">>.  Segments hold no dot.            *)
(*  - A JavaScript object used as an ordered mapping (colors, overrides,   *)
(*    variants) is a sequence of entries with distinct keys, in insertion  *)
(*    order.                                                               *)
(*  - An output schema is a function from formatted keys (strings) to      *)
(*    serialized values.                                                   *)
(*  - An optional value is <<>> (undefined) or <<v>>.                      *)
(*  - The colour library (colorus-js) is an external collaborator: a       *)
(*    colour instance is [isValid, l] with l a lightness level             *)
(*    0..MaxLevel; lighten and darken move one level and clamp.            *)
(*  - An object's identity is a reference: a positive number that no other *)
(*    object the model still follows has; 0 stands for no object.          *)
(***************************************************************************)
EXTENDS Integers, Sequences, FiniteSets, TLC

VARIABLES
    options,          \* the options object the constructor was called with
    tokens,           \* this.tokens: the Token Registry (a set of tokens)
    colors,           \* this.colors: the caller's mapping, held by reference
    variants,         \* this.variants
    colorSerializer,  \* this.colorSerializer
    colorScope,       \* this.colorScope
    prefix,           \* this.prefix
    divider,          \* this.divider
    logger,           \* this.logger: "console" (the sink) or "throwing" (strict)
    baseColorSchema,  \* this.baseColorSchema: <<>> or <<schema>>
    last,             \* what the most recent call did and returned
    first,            \* the result the caller kept from its first no-argument call
    mutations,        \* how often the caller has mutated its mapping in place
    cacheRef,         \* the reference of the object this.baseColorSchema holds
    firstRef,         \* the reference of the object `first` is
    held              \* the override result the caller holds: <<>> or <<[ref, schema]>>

vars == <<options, tokens, colors, variants, colorSerializer, colorScope, prefix, divider,
          logger, baseColorSchema, last, first, mutations, cacheRef, firstRef, held>>

config == <<options, tokens, variants, colorSerializer, colorScope, prefix, divider, logger>>

-----------------------------------------------------------------------------
(* Bounds of the model. *)

\* lightness levels of the colour space are 0..MaxLevel
MaxLevel == 2

\* in-place mutations of the input mapping the caller performs
MaxMutations == 1

-----------------------------------------------------------------------------
(* Generic helpers: optional values, strings, ordered mappings, schemas. *)

Undefined == <<>>

Some(v) == <<v>>

\* JavaScript `a || b` for a string-valued option: undefined and "" are falsy
OrString(opt, default) ==
    IF opt = Undefined \/ opt[1] = "" THEN default ELSE opt[1]

\* JavaScript `a || b` for an object-valued option: every object is truthy
OrObject(opt, default) == IF opt = Undefined THEN default ELSE opt[1]

RECURSIVE Join(_, _)
\* segs joined by d: the token with these segments, each "." replaced by d
Join(segs, d) ==
    IF Len(segs) = 0 THEN ""
    ELSE IF Len(segs) = 1 THEN segs[1]
    ELSE segs[1] \o d \o Join(Tail(segs), d)

\* the token as the string the program holds
TokenName(token) == Join(token, ".")

\* Object.keys(mapping), in insertion order
Keys(mapping) == [i \in 1..Len(mapping) |-> mapping[i].token]

KeySet(mapping) == {mapping[i].token : i \in 1..Len(mapping)}

\* mapping[token], for a token among its keys
Lookup(mapping, token) ==
    LET i == CHOOSE j \in 1..Len(mapping) : mapping[j].token = token
    IN  mapping[i].value

\* mutant of Put: a key the schema already holds is not written again
Put_keepsFirst(schema, key, value) ==
    [k \in DOMAIN schema \cup {key} |-> IF k \in DOMAIN schema THEN schema[k] ELSE value]

\* schema[key] = value
Put(schema, key, value) ==
    [k \in DOMAIN schema \cup {key} |-> IF k = key THEN value ELSE schema[k]]

\* { ...base, ...over }
Spread(base, over) ==
    [k \in DOMAIN base \cup DOMAIN over |-> IF k \in DOMAIN over THEN over[k] ELSE base[k]]

EmptySchema == <<>>


-----------------------------------------------------------------------------
(* The colour library, as far as ThemeManager uses it. *)

\* the colour strings the parsers accept, with the lightness level of each
ParsedLevel(value) ==
    CASE value = "#000000" -> 0
      [] value = "#333333" -> 1
      [] value = "#3366ff" -> 1
      [] value = "#ffffff" -> MaxLevel

Parsable == {"#000000", "#333333", "#3366ff", "#ffffff"}

\* every colour value a mapping of the model holds: the parsable strings, a
\* string no parser accepts, and the empty (falsy) string
ColorValues == Parsable \cup {"none", ""}

\* this.dye(colorValue): always an instance; source.isValid tells whether a
\* parser accepted the value
dye(value) ==
    IF value \in Parsable THEN [isValid |-> TRUE, l |-> ParsedLevel(value)]
    ELSE [isValid |-> FALSE, l |-> 0]

\* c.lighten(0.12): one level up, clamped at white; validity is kept
lighten(c) == [c EXCEPT !.l = IF c.l < MaxLevel THEN c.l + 1 ELSE MaxLevel]

\* c.darken(0.12): one level down, clamped at black; validity is kept
darken(c) == [c EXCEPT !.l = IF c.l > 0 THEN c.l - 1 ELSE 0]

\* a caller-supplied VariantFn that cannot handle black: it darkens any other
\* valid colour and yields an invalid colour otherwise
custom(c) ==
    IF c.isValid /\ c.l > 0 THEN darken(c) ELSE [isValid |-> FALSE, l |-> 0]

\* transformer(baseColor, variantKey)
Transform(fn, c, variantKey) ==
    CASE fn = "lighten" -> lighten(c)
      [] fn = "darken"  -> darken(c)
      [] fn = "custom"  -> custom(c)

\* const defaultVariants = { lighter: c => c.lighten(0.12), darker: c => c.darken(0.12) }
defaultVariants ==
    << [name |-> "lighter", fn |-> "lighten"], [name |-> "darker", fn |-> "darken"] >>

\* a ColorSerializer applied to (c, token): "rgb" is defaultColorSerializer
\* (c => c.rgb), "hex" is c => c.toHex(), "tagged" also uses its second argument
Serialize(serializer, c, token) ==
    CASE serializer = "rgb"    -> [fmt |-> "rgb", l |-> c.l, tag |-> ""]
      [] serializer = "hex"    -> [fmt |-> "hex", l |-> c.l, tag |-> ""]
      [] serializer = "tagged" -> [fmt |-> "tagged", l |-> c.l, tag |-> token]

defaultColorSerializer == "rgb"

\* ["bg", "fg", "foreground", "background"], the scope used when none is given
defaultColorScope == <<"bg", "fg", "foreground", "background">>

-----------------------------------------------------------------------------
(* ThemeManager.createLogger and the logger's use. *)

\* mutant of createLogger: strict is ignored
createLogger_ignoresStrict(strict) == "console"

\* createLogger(logger, strict): the logger itself, or one whose methods throw
createLogger(strict) == IF strict THEN "throwing" ELSE "console"

\* message.replace("Skipping...", ""), the message given as its fragments: the
\* first fragment equal to the pattern is dropped
RECURSIVE Replace(_, _)
Replace(parts, pattern) ==
    IF parts = <<>> THEN <<>>
    ELSE IF Head(parts) = pattern THEN Tail(parts)
    ELSE <<Head(parts)>> \o Replace(Tail(parts), pattern)

Text(parts) == Join(parts, "")

\* what a thrown Error carries
ErrorText(parts) == "[Theme-Manager]: " \o Text(Replace(parts, "Skipping..."))

\* the record of one call's effects on its collaborators
NewRun ==
    [schema |-> EmptySchema, logged |-> <<>>, serialized |-> <<>>,
     transformed |-> <<>>, raised |-> FALSE, error |-> ""]

\* mutant of Log: the strict logger replaces the error method only
Log_errorOnlyThrows(run, level, parts) ==
    IF logger = "throwing" /\ level = "error"
    THEN [run EXCEPT !.raised = TRUE, !.error = ErrorText(parts)]
    ELSE [run EXCEPT !.logged = Append(@, [level |-> level, message |-> Text(parts)])]

\* this.logger.warn(message) / this.logger.error(message) during a run
Log(run, level, parts) ==
    IF logger = "throwing"
    THEN [run EXCEPT !.raised = TRUE, !.error = ErrorText(parts)]
    ELSE [run EXCEPT !.logged = Append(@, [level |-> level, message |-> Text(parts)])]

-----------------------------------------------------------------------------
(* ThemeManager.generateTheme and ThemeManager.appendVariants. *)

\* what String.prototype.replace inserts for one match of /\./ when the
\* replacement string is d: "$$" stands for "$" and "$&" for the matched ".";
\* a replacement string without "$" is inserted as it is
GetSubstitution(d) ==
    CASE d = "$$" -> "$"
      [] d = "$&" -> "."
      [] OTHER    -> d

\* `${this.prefix}${token.replace(/\./g, this.divider)}`
formattedKey(token) == prefix \o Join(token, GetSubstitution(divider))

\* mutant of formattedVariantKey: no divider before the variant name
formattedVariantKey_noDivider(token, variantKey) ==
    prefix \o Join(token, GetSubstitution(divider)) \o variantKey

\* `${this.prefix}${token.replace(/\./g, this.divider)}${this.divider}${variantKey}`
formattedVariantKey(token, variantKey) ==
    prefix \o Join(token, GetSubstitution(divider)) \o divider \o variantKey

\* token.endsWith(`.${scope}`), for a scope suffix that holds no dot
endsWith(token, scope) == Len(token) >= 2 /\ token[Len(token)] = scope

\* this.colorScope.some((scope) => token.endsWith(`.${scope}`))
isColorScopedToken(token) ==
    \E i \in 1..Len(colorScope) : endsWith(token, colorScope[i])

\* mutant of Unregistered: the token is looked up in the live input mapping
Unregistered_liveKeys(token) == token \notin KeySet(colors)

\* !tokens.has(token)
Unregistered(token) == token \notin tokens

\* mutant of Falsy: only a missing value counts (colorValue === undefined), and
\* every value of a mapping is a string
Falsy_undefinedOnly(colorValue) == FALSE

\* !colorValue
Falsy(colorValue) == colorValue = ""

\* mutant of AppendVariant: the base colour is serialized, not the variant colour
AppendVariant_serializesBase(token, baseColor, i, run) ==
    LET variantKey   == variants[i].name
        variantColor == Transform(variants[i].fn, baseColor, variantKey)
        applied      == [run EXCEPT !.transformed =
                             Append(@, [token |-> token, variant |-> variantKey])]
    IN  IF ~variantColor.isValid
        THEN Log(applied, "warn",
                 <<"Variant ", variantKey, " for token ", TokenName(token),
                   " produced invalid color. ", "Skipping...">>)
        ELSE [applied EXCEPT
                 !.schema = Put(@, formattedVariantKey(token, variantKey),
                                Serialize(colorSerializer, baseColor, variantKey)),
                 !.serialized = Append(@, [kind |-> "variant", token |-> token,
                                           key |-> formattedVariantKey(token, variantKey),
                                           c |-> baseColor, name |-> variantKey])]

\* mutant of AppendVariant: an invalid variant colour is warned about and then
\* added to the schema all the same (the continue is missing)
AppendVariant_emitsInvalid(token, baseColor, i, run) ==
    LET variantKey   == variants[i].name
        variantColor == Transform(variants[i].fn, baseColor, variantKey)
        applied      == [run EXCEPT !.transformed =
                             Append(@, [token |-> token, variant |-> variantKey])]
        warned       == IF ~variantColor.isValid
                        THEN Log(applied, "warn",
                                 <<"Variant ", variantKey, " for token ", TokenName(token),
                                   " produced invalid color. ", "Skipping...">>)
                        ELSE applied
    IN  IF warned.raised THEN warned
        ELSE [warned EXCEPT
                 !.schema = Put(@, formattedVariantKey(token, variantKey),
                                Serialize(colorSerializer, variantColor, variantKey)),
                 !.serialized = Append(@, [kind |-> "variant", token |-> token,
                                           key |-> formattedVariantKey(token, variantKey),
                                           c |-> variantColor, name |-> variantKey])]

\* one round of appendVariants' loop, for the variant at position i
AppendVariant(token, baseColor, i, run) ==
    LET variantKey   == variants[i].name
        variantColor == Transform(variants[i].fn, baseColor, variantKey)
        applied      == [run EXCEPT !.transformed =
                             Append(@, [token |-> token, variant |-> variantKey])]
    IN  IF ~variantColor.isValid
        THEN Log(applied, "warn",
                 <<"Variant ", variantKey, " for token ", TokenName(token),
                   " produced invalid color. ", "Skipping...">>)
        ELSE [applied EXCEPT
                 !.schema = Put(@, formattedVariantKey(token, variantKey),
                                Serialize(colorSerializer, variantColor, variantKey)),
                 !.serialized = Append(@, [kind |-> "variant", token |-> token,
                                           key |-> formattedVariantKey(token, variantKey),
                                           c |-> variantColor, name |-> variantKey])]

RECURSIVE appendVariants_chains(_, _, _, _)
\* mutant of appendVariants: each variant is computed from the colour of the
\* variant before it (baseColor = transformer(baseColor, variantKey))
appendVariants_chains(token, baseColor, i, run) ==
    IF i > Len(variants) \/ run.raised THEN run
    ELSE appendVariants_chains(token,
                               Transform(variants[i].fn, baseColor, variants[i].name),
                               i + 1, AppendVariant(token, baseColor, i, run))

RECURSIVE appendVariants(_, _, _, _)
\* appendVariants(token, baseColor, ...) from variant i on; a throw ends it
appendVariants(token, baseColor, i, run) ==
    IF i > Len(variants) \/ run.raised THEN run
    ELSE appendVariants(token, baseColor, i + 1, AppendVariant(token, baseColor, i, run))

\* mutant of EmitBase: the serializer is given the formatted key, not the token
EmitBase_formattedName(token, processedColor, run) ==
    [run EXCEPT
        !.schema = Put(@, formattedKey(token),
                       Serialize(colorSerializer, processedColor, formattedKey(token))),
        !.serialized = Append(@, [kind |-> "base", token |-> token,
                                  key |-> formattedKey(token),
                                  c |-> processedColor, name |-> formattedKey(token)])]

\* schema[formattedKey] = ColorSerializer(processedColor, token)
EmitBase(token, processedColor, run) ==
    [run EXCEPT
        !.schema = Put(@, formattedKey(token),
                       Serialize(colorSerializer, processedColor, TokenName(token))),
        !.serialized = Append(@, [kind |-> "base", token |-> token,
                                  key |-> formattedKey(token),
                                  c |-> processedColor, name |-> TokenName(token)])]

\* mutant of ProcessToken: a base colour that is not valid is warned about
\* and skipped like an empty value
ProcessToken_checksBase(schemaColors, token, run) ==
    IF Unregistered(token)
    THEN Log(run, "warn",
             <<"Token ", TokenName(token), " is not in the registry. ", "Skipping...">>)
    ELSE LET colorValue == Lookup(schemaColors, token) IN
         IF Falsy(colorValue) \/ ~dye(colorValue).isValid
         THEN Log(run, "warn",
                  <<"Token ", TokenName(token), " has no color. ", "Skipping...">>)
         ELSE LET processedColor == dye(colorValue)
                  based == EmitBase(token, processedColor, run)
              IN  IF isColorScopedToken(token)
                  THEN appendVariants(token, processedColor, 1, based)
                  ELSE based

\* the body of generateTheme's loop for one token of schemaColors
ProcessToken(schemaColors, token, run) ==
    IF Unregistered(token)
    THEN Log(run, "warn",
             <<"Token ", TokenName(token), " is not in the registry. ", "Skipping...">>)
    ELSE LET colorValue == Lookup(schemaColors, token) IN
         IF Falsy(colorValue)
         THEN Log(run, "warn",
                  <<"Token ", TokenName(token), " has no color. ", "Skipping...">>)
         ELSE LET processedColor == dye(colorValue)
                  based == EmitBase(token, processedColor, run)
              IN  IF isColorScopedToken(token)
                  THEN appendVariants(token, processedColor, 1, based)
                  ELSE based

RECURSIVE ProcessColors_stopsAtWarning(_, _, _)
\* mutant of ProcessColors: the loop ends at the first warning (break for continue)
ProcessColors_stopsAtWarning(schemaColors, i, run) ==
    IF i > Len(schemaColors) \/ run.raised \/ run.logged # <<>> THEN run
    ELSE ProcessColors_stopsAtWarning(schemaColors, i + 1,
             ProcessToken(schemaColors, Keys(schemaColors)[i], run))

RECURSIVE ProcessColors(_, _, _)
\* for (const token of colorKeys) { ... } from position i on; a throw ends it
ProcessColors(schemaColors, i, run) ==
    IF i > Len(schemaColors) \/ run.raised THEN run
    ELSE ProcessColors(schemaColors, i + 1,
                       ProcessToken(schemaColors, Keys(schemaColors)[i], run))

\* mutant of CacheHit: the early return is missing
CacheHit_never(arg) == FALSE

\* if (!colors && this.baseColorSchema) return this.baseColorSchema
CacheHit(arg) == arg = Undefined /\ baseColorSchema # Undefined

\* mutant of MergeWithBase: the spread is reversed, so cached keys win
MergeWithBase_baseWins(schema) ==
    IF baseColorSchema # Undefined THEN Spread(schema, baseColorSchema[1]) ELSE schema

\* mutant of MergeWithBase: the merge is missing
MergeWithBase_buildOnly(schema) == schema

\* if (this.baseColorSchema) schema = { ...this.baseColorSchema, ...schema }
MergeWithBase(schema) ==
    IF baseColorSchema # Undefined THEN Spread(baseColorSchema[1], schema) ELSE schema

\* mutant of StoreCache: the schema is never stored
StoreCache_never(arg, schema) == baseColorSchema

\* mutant of StoreCache: every build's schema is stored
StoreCache_always(arg, schema) == Some(schema)

\* if (!colors && !this.baseColorSchema) this.baseColorSchema = schema
StoreCache(arg, schema) ==
    IF arg = Undefined /\ baseColorSchema = Undefined THEN Some(schema)
    ELSE baseColorSchema

\* const schemaColors = colors || this.colors
SchemaColors(arg) == OrObject(arg, colors)

\* the reference that stands for no object
NoObject == 0

\* mutant of NewObject: a build on a cache writes into the cache object
NewObject_intoCache == IF cacheRef # NoObject THEN cacheRef ELSE 1

\* the reference of an object created now (let schema = {}, or the object the
\* spread at the merge creates): the least one that neither the cache nor the
\* first result has
NewObject == CHOOSE n \in 1..3 : n \notin {cacheRef, firstRef}
                                  /\ \A k \in 1..(n - 1) : k \in {cacheRef, firstRef}

\* generateTheme(colors?) entered with the effects `run` already made by its
\* caller: what it does, what it returns (the schema and the object it is)
\* and what the cache is afterwards
generateTheme(arg, run) ==
    IF CacheHit(arg)
    THEN [run |-> run, processed |-> Undefined, result |-> baseColorSchema,
          ref |-> cacheRef, cache |-> baseColorSchema]
    ELSE LET built == ProcessColors(SchemaColors(arg), 1, run) IN
         IF built.raised
         THEN [run |-> built, processed |-> Some(SchemaColors(arg)),
               result |-> Undefined, ref |-> NoObject, cache |-> baseColorSchema]
         ELSE LET schema == MergeWithBase(built.schema)
              IN  [run |-> built, processed |-> Some(SchemaColors(arg)),
                   result |-> Some(schema), ref |-> NewObject,
                   cache |-> StoreCache(arg, schema)]

-----------------------------------------------------------------------------
(* ThemeManager.parseFromJson. *)

Entry(token, value) == [token |-> token, value |-> value]

\* the JSON texts given to parseFromJson
JsonTexts ==
    { "{\"button.bg\":\"#000000\"}",
      "{\"invalid.token\":\"#333333\",\"text.fg\":\"#000000\"}",
      "null",
      "{\"button.bg\":" }

\* JSON.parse(json): it throws a SyntaxError on malformed text, and yields
\* null or the mapping the text denotes otherwise
JSONparse(json) ==
    CASE json = "{\"button.bg\":\"#000000\"}" ->
             [threw |-> FALSE, value |-> Some(<<Entry(<<"button", "bg">>, "#000000")>>)]
      [] json = "{\"invalid.token\":\"#333333\",\"text.fg\":\"#000000\"}" ->
             [threw |-> FALSE,
              value |-> Some(<<Entry(<<"invalid", "token">>, "#333333"),
                               Entry(<<"text", "fg">>, "#000000")>>)]
      [] json = "null" -> [threw |-> FALSE, value |-> Undefined]
      [] OTHER -> [threw |-> TRUE, value |-> Undefined]

\* mutant of parseFromJson: the parsed mapping is not handed to generateTheme
parseFromJson_dropsParsed(json) ==
    LET parsed == JSONparse(json) IN
    IF parsed.threw
    THEN [run |-> [NewRun EXCEPT !.raised = TRUE, !.error = "SyntaxError"],
          processed |-> Undefined, result |-> Undefined, ref |-> NoObject,
          cache |-> baseColorSchema]
    ELSE IF parsed.value = Undefined
    THEN LET run == Log(NewRun, "error", <<"Invalid JSON format. Unable to parse theme.">>)
         IN  [run |-> run, processed |-> Undefined,
              result |-> IF run.raised THEN Undefined ELSE Some(EmptySchema),
              ref |-> IF run.raised THEN NoObject ELSE NewObject,
              cache |-> baseColorSchema]
    ELSE LET run == IF baseColorSchema = Undefined
                    THEN Log(NewRun, "warn",
                             <<"No base color schema provided. Some colors may not be ",
                               "validated correctly. Consider using a base color schema.">>)
                    ELSE NewRun
         IN  IF run.raised
             THEN [run |-> run, processed |-> Undefined, result |-> Undefined,
                   ref |-> NoObject, cache |-> baseColorSchema]
             ELSE generateTheme(Undefined, run)

\* mutant of parseFromJson: the warning does not depend on the cache
parseFromJson_warnsAlways(json) ==
    LET parsed == JSONparse(json) IN
    IF parsed.threw
    THEN [run |-> [NewRun EXCEPT !.raised = TRUE, !.error = "SyntaxError"],
          processed |-> Undefined, result |-> Undefined, ref |-> NoObject,
          cache |-> baseColorSchema]
    ELSE IF parsed.value = Undefined
    THEN LET run == Log(NewRun, "error", <<"Invalid JSON format. Unable to parse theme.">>)
         IN  [run |-> run, processed |-> Undefined,
              result |-> IF run.raised THEN Undefined ELSE Some(EmptySchema),
              ref |-> IF run.raised THEN NoObject ELSE NewObject,
              cache |-> baseColorSchema]
    ELSE LET run == IF TRUE
                    THEN Log(NewRun, "warn",
                             <<"No base color schema provided. Some colors may not be ",
                               "validated correctly. Consider using a base color schema.">>)
                    ELSE NewRun
         IN  IF run.raised
             THEN [run |-> run, processed |-> Undefined, result |-> Undefined,
                   ref |-> NoObject, cache |-> baseColorSchema]
             ELSE generateTheme(parsed.value, run)

\* parseFromJson(json): what it does, what it returns and what the cache is
\* afterwards
parseFromJson(json) ==
    LET parsed == JSONparse(json) IN
    IF parsed.threw
    THEN [run |-> [NewRun EXCEPT !.raised = TRUE, !.error = "SyntaxError"],
          processed |-> Undefined, result |-> Undefined, ref |-> NoObject,
          cache |-> baseColorSchema]
    ELSE IF parsed.value = Undefined
    THEN LET run == Log(NewRun, "error", <<"Invalid JSON format. Unable to parse theme.">>)
         IN  [run |-> run, processed |-> Undefined,
              result |-> IF run.raised THEN Undefined ELSE Some(EmptySchema),
              ref |-> IF run.raised THEN NoObject ELSE NewObject,
              cache |-> baseColorSchema]
    ELSE LET run == IF baseColorSchema = Undefined
                    THEN Log(NewRun, "warn",
                             <<"No base color schema provided. Some colors may not be ",
                               "validated correctly. Consider using a base color schema.">>)
                    ELSE NewRun
         IN  IF run.raised
             THEN [run |-> run, processed |-> Undefined, result |-> Undefined,
                   ref |-> NoObject, cache |-> baseColorSchema]
             ELSE generateTheme(parsed.value, run)

-----------------------------------------------------------------------------
(* The inputs of the model. *)

\* the colour mappings handed to the constructor in every combination of the
\* other options
BaseColors ==
    { << Entry(<<"button", "bg">>, "#333333"), Entry(<<"button", "shadow">>, "#ffffff"),
         Entry(<<"text", "fg">>, "#ffffff") >>,
      << Entry(<<"button", "bg", "lighter">>, "#000000"),
         Entry(<<"button", "bg">>, "#333333") >>,
      << Entry(<<"button", "bg">>, ""), Entry(<<"text", "fg">>, "none"),
         Entry(<<"button", "shadow">>, "#333333") >> }

\* every combination of the constructor's options
OptionCombinations ==
    [ colors   : BaseColors,
      strict   : {Undefined, Some(TRUE)},
      scope    : {Undefined, Some(<<"shadow">>)},
      variants : {Undefined,
                  Some(<< [name |-> "lighter", fn |-> "lighten"],
                          [name |-> "custom", fn |-> "custom"] >>)},
      output   : {Undefined,
                  Some([prefix |-> Some("--"), divider |-> Some("-"),
                        serializer |-> Some("tagged")]),
                  Some([prefix |-> Undefined, divider |-> Some(""),
                        serializer |-> Some("hex")])} ]

\* the README's Quick Start mapping, reduced to its two scoped tokens
QuickStartColors ==
    << Entry(<<"button", "bg">>, "#3366ff"), Entry(<<"text", "fg">>, "#333333") >>

\* the Quick Start configuration: scope ["bg", "fg"], the default variants and
\* serializer, output prefix "--" and divider "-"
QuickStart(strict) ==
    [ colors   |-> QuickStartColors,
      strict   |-> strict,
      scope    |-> Some(<<"bg", "fg">>),
      variants |-> Undefined,
      output   |-> Some([prefix |-> Some("--"), divider |-> Some("-"),
                         serializer |-> Undefined]) ]

\* a one-token mapping formatted with prefix "--" and the given divider
Accent(d) ==
    [ colors   |-> << Entry(<<"accent", "fg">>, "#333333") >>,
      strict   |-> Undefined,
      scope    |-> Undefined,
      variants |-> Undefined,
      output   |-> Some([prefix |-> Some("--"), divider |-> Some(d),
                         serializer |-> Undefined]) ]

\* the same mapping formatted with the empty string as prefix and the given
\* divider
Unprefixed(d) ==
    [ colors   |-> << Entry(<<"accent", "fg">>, "#333333") >>,
      strict   |-> Undefined,
      scope    |-> Undefined,
      variants |-> Undefined,
      output   |-> Some([prefix |-> Some(""), divider |-> Some(d),
                         serializer |-> Undefined]) ]

\* the constructor's options: every combination of the settings above, the
\* Quick Start configuration, and a one-token mapping with two dividers and
\* with the empty string as prefix
Options ==
    OptionCombinations
        \cup {QuickStart(Undefined), QuickStart(Some(FALSE)), QuickStart(Some(TRUE))}
        \cup {Unprefixed(""), Unprefixed("-")}
        \cup {Accent("-"), Accent("$$")}

\* the override mappings given to generateTheme; the last one's token is the
\* string "Skipping..."
Overrides ==
    { <<>>,
      << Entry(<<"button", "bg">>, "#000000") >>,
      << Entry(<<"button", "bg">>, "") >>,
      << Entry(<<"text", "fg">>, "none") >>,
      << Entry(<<"invalid", "token">>, "#ffffff") >>,
      << Entry(<<"invalid", "token">>, "#333333"), Entry(<<"text", "fg">>, "#000000") >>,
      << Entry(<<"button", "shadow">>, "#000000"), Entry(<<"button", "bg">>, "") >>,
      << Entry(<<"text", "fg">>, "#000000"), Entry(<<"button", "shadow">>, "#333333") >>,
      << Entry(<<"button", "bg">>, ""), Entry(<<"button", "bg", "lighter">>, "#ffffff") >>,
      << Entry(<<"Skipping", "", "", "">>, "#ffffff") >>,
      << Entry(<<"button", "bg">>, "none"), Entry(<<"button", "bg", "lighter">>, "#ffffff") >> }

\* the caller's in-place mutations of the mapping it gave to the constructor
Mutations ==
    { [kind |-> "set", token |-> <<"button", "bg">>, value |-> "#ffffff"],
      [kind |-> "set", token |-> <<"text", "fg">>, value |-> ""],
      [kind |-> "set", token |-> <<"invalid", "token">>, value |-> "#333333"],
      [kind |-> "delete", token |-> <<"button", "bg">>, value |-> ""] }

\* mapping[token] = value: in place for an existing key, appended for a new one
Assign(mapping, token, value) ==
    IF token \in KeySet(mapping)
    THEN [i \in 1..Len(mapping) |->
             IF mapping[i].token = token THEN Entry(token, value) ELSE mapping[i]]
    ELSE Append(mapping, Entry(token, value))

\* delete mapping[token]
Delete(mapping, token) == SelectSeq(mapping, LAMBDA e : e.token # token)

Mutated(mapping, m) ==
    IF m.kind = "set" THEN Assign(mapping, m.token, m.value)
    ELSE Delete(mapping, m.token)

-----------------------------------------------------------------------------
(* The state machine: construction, then calls in any order. *)

\* strict || false
Strict(opts) == opts.strict # Undefined /\ opts.strict[1]

\* mutant of ScopeOf: a configured scope extends the default list
ScopeOf_extends(opts) ==
    IF opts.scope = Undefined THEN defaultColorScope
    ELSE defaultColorScope \o opts.scope[1]

\* options.scope || ["bg", "fg", "foreground", "background"]
ScopeOf(opts) == OrObject(opts.scope, defaultColorScope)

\* mutant of VariantsOf: the given variants are merged into the defaults
\* ({ ...defaultVariants, ...options.variants })
VariantsOf_merges(opts) ==
    IF opts.variants = Undefined THEN defaultVariants
    ELSE LET given == opts.variants[1]
             names == {given[i].name : i \in 1..Len(given)}
             defaultNames == {defaultVariants[i].name : i \in 1..Len(defaultVariants)}
         IN  [i \in 1..Len(defaultVariants) |->
                 IF defaultVariants[i].name \in names
                 THEN given[CHOOSE k \in 1..Len(given) :
                                given[k].name = defaultVariants[i].name]
                 ELSE defaultVariants[i]]
             \o SelectSeq(given, LAMBDA g : g.name \notin defaultNames)

\* options.variants || defaultVariants
VariantsOf(opts) == OrObject(opts.variants, defaultVariants)

\* options.output?.serializer || defaultColorSerializer
SerializerOf(opts) ==
    IF opts.output = Undefined THEN defaultColorSerializer
    ELSE OrObject(opts.output[1].serializer, defaultColorSerializer)

\* output?.prefix || ""
PrefixOf(opts) ==
    IF opts.output = Undefined THEN "" ELSE OrString(opts.output[1].prefix, "")

\* mutant of DividerOf: only an absent divider takes the default (??)
DividerOf_nullish(opts) ==
    IF opts.output = Undefined \/ opts.output[1].divider = Undefined THEN "."
    ELSE opts.output[1].divider[1]

\* output?.divider || "."
DividerOf(opts) ==
    IF opts.output = Undefined THEN "." ELSE OrString(opts.output[1].divider, ".")

\* what `last` holds before any call
NoCall ==
    [op |-> "new", arg |-> Undefined, json |-> "", processed |-> Undefined,
     colorsBefore |-> <<>>, cacheBefore |-> Undefined, result |-> Undefined, raised |-> FALSE, error |-> "",
     logged |-> <<>>, serialized |-> <<>>, transformed |-> <<>>, ref |-> NoObject]

\* what `last` holds after a call with outcome `out`
Called(op, arg, json, out) ==
    [op |-> op, arg |-> arg, json |-> json, processed |-> out.processed,
     colorsBefore |-> colors, cacheBefore |-> baseColorSchema, result |-> out.result, raised |-> out.run.raised,
     error |-> out.run.error, logged |-> out.run.logged,
     serialized |-> out.run.serialized, transformed |-> out.run.transformed,
     ref |-> out.ref]

\* new ThemeManager(options)
constructor(opts) ==
    /\ options = opts
    /\ tokens = KeySet(opts.colors)
    /\ colors = opts.colors
    /\ colorScope = ScopeOf(opts)
    /\ colorSerializer = SerializerOf(opts)
    /\ variants = VariantsOf(opts)
    /\ prefix = PrefixOf(opts)
    /\ divider = DividerOf(opts)
    /\ logger = createLogger(Strict(opts))
    /\ baseColorSchema = Undefined

Init ==
    /\ \E opts \in Options : constructor(opts)
    /\ last = NoCall
    /\ first = Undefined
    /\ mutations = 0
    /\ cacheRef = NoObject
    /\ firstRef = NoObject
    /\ held = Undefined

\* the object this.baseColorSchema holds after a call with outcome `out`: the
\* returned object when the call stored its schema (this.baseColorSchema = schema)
CacheObject(out) == IF out.cache # baseColorSchema THEN out.ref ELSE cacheRef

\* theme.generateTheme()
GenerateTheme ==
    \E out \in {generateTheme(Undefined, NewRun)} :
    /\ baseColorSchema' = out.cache
    /\ last' = Called("generateTheme", Undefined, "", out)
    /\ first' = IF first = Undefined THEN out.result ELSE first
    /\ cacheRef' = CacheObject(out)
    /\ firstRef' = IF first = Undefined THEN out.ref ELSE firstRef
    /\ held' = Undefined
    /\ UNCHANGED <<config, colors, mutations>>

\* theme.generateTheme(overrides)
GenerateThemeWith ==
    \E overrides \in Overrides :
        \E out \in {generateTheme(Some(overrides), NewRun)} :
        /\ baseColorSchema' = out.cache
        /\ last' = Called("generateTheme", Some(overrides), "", out)
        /\ cacheRef' = CacheObject(out)
        /\ held' = IF out.result = Undefined THEN Undefined
                   ELSE Some([ref |-> out.ref, schema |-> out.result[1]])
        /\ UNCHANGED <<config, colors, first, firstRef, mutations>>

\* theme.parseFromJson(json)
ParseFromJson ==
    \E json \in JsonTexts :
        \E out \in {parseFromJson(json)} :
        /\ baseColorSchema' = out.cache
        /\ last' = Called("parseFromJson", JSONparse(json).value, json, out)
        /\ cacheRef' = CacheObject(out)
        /\ held' = Undefined
        /\ UNCHANGED <<config, colors, first, firstRef, mutations>>

\* the caller changes, in place, the mapping it gave to the constructor
MutateColors ==
    \E m \in Mutations :
        /\ mutations < MaxMutations
        /\ Mutated(colors, m) # colors
        /\ colors' = Mutated(colors, m)
        /\ mutations' = mutations + 1
        /\ UNCHANGED <<config, baseColorSchema, last, first, cacheRef, firstRef, held>>

\* the caller empties, in place, the override result it holds, obtained while
\* a cache existed (for (const key in result) delete result[key]); what the
\* instance or the caller holds under the same reference is that same object
MutateResult ==
    /\ held # Undefined
    /\ held[1].schema # EmptySchema
    /\ baseColorSchema # Undefined
    /\ held' = Some([held[1] EXCEPT !.schema = EmptySchema])
    /\ baseColorSchema' = IF held[1].ref = cacheRef THEN Some(EmptySchema)
                          ELSE baseColorSchema
    /\ first' = IF held[1].ref = firstRef THEN Some(EmptySchema) ELSE first
    /\ UNCHANGED <<config, colors, last, mutations, cacheRef, firstRef>>

Next ==
    GenerateTheme \/ GenerateThemeWith \/ ParseFromJson \/ MutateColors \/ MutateResult

Spec == Init /\ [][Next]_vars

-----------------------------------------------------------------------------
(* Vocabulary of the claims. *)

\* the last call was generateTheme() with no argument
NoArgCall == last.op = "generateTheme" /\ last.arg = Undefined

\* the last call was generateTheme(overrides)
OverrideCall == last.op = "generateTheme" /\ last.arg # Undefined

\* the last call returned to its caller
Returned == last.op # "new" /\ ~last.raised

\* the instance was constructed with strict: true
StrictMode == options.strict = Some(TRUE)

\* the schema a fresh build of `mapping` would yield with this configuration
FreshSchema(mapping) == ProcessColors(mapping, 1, NewRun).schema

-----------------------------------------------------------------------------
(* C1..C3: the base schema cache. *)

\* C1: a no-argument generateTheme() made while the cache exists returns the
\* cached schema and invokes no serializer, no variant transform and no logger
\* method, whatever the first build logged.
C1_CachedCallDoesNothing ==
    (NoArgCall /\ last.cacheBefore # Undefined) =>
        /\ ~last.raised
        /\ last.result = last.cacheBefore
        /\ last.processed = Undefined
        /\ last.serialized = <<>>
        /\ last.transformed = <<>>
        /\ last.logged = <<>>

\* a cached no-argument call on a mapping whose rebuild would log a warning
\* and serialize a token, the mapping being the one the cache was built from
C1_Witness ==
    /\ NoArgCall /\ last.cacheBefore # Undefined
    /\ mutations = 0
    /\ ProcessColors(last.colorsBefore, 1, NewRun).logged # <<>>
    /\ ProcessColors(last.colorsBefore, 1, NewRun).serialized # <<>>

\* C2: every no-argument generateTheme() that returns, returns a schema equal
\* to the one the first such call returned, also when the input mapping was
\* mutated in place in between.
C2_NoArgIdempotent == (NoArgCall /\ Returned) => last.result = first

\* a second no-argument call made after a mutation that would change a rebuild
C2_Witness ==
    /\ NoArgCall /\ Returned /\ last.cacheBefore # Undefined
    /\ mutations > 0
    /\ FreshSchema(last.colorsBefore) # last.result[1]

\* C3: once populated, the cache never changes: no call and no mutation of the
\* input mapping replaces, extends or empties it.
C3_CacheImmutable ==
    [][baseColorSchema # Undefined => baseColorSchema' = baseColorSchema]_vars

\* an override call that returned something other than the cache, made on a
\* populated cache after the input mapping was mutated, the cache being still
\* the schema first stored
C3_Witness ==
    /\ OverrideCall /\ Returned /\ last.cacheBefore # Undefined
    /\ last.result # last.cacheBefore
    /\ mutations > 0
    /\ baseColorSchema = first

-----------------------------------------------------------------------------
(* C4, C5: override calls. *)

\* the variant positions whose key for `token` is `key`
VariantsAt(token, key) ==
    {i \in 1..Len(variants) : formattedVariantKey(token, variants[i].name) = key}

\* the keys derived from a token: its base key and, when it is scoped, one key
\* per configured variant
DerivedKeys(token) ==
    {formattedKey(token)} \cup
    (IF isColorScopedToken(token)
     THEN {formattedVariantKey(token, variants[i].name) : i \in 1..Len(variants)}
     ELSE {})

\* the value computed from colour value v for the variant at position i
VariantValue(v, i) ==
    Serialize(colorSerializer, Transform(variants[i].fn, dye(v), variants[i].name),
              variants[i].name)

\* the value computed from colour value v for a token's base key
BaseValue(token, v) == Serialize(colorSerializer, dye(v), TokenName(token))

\* every key derived from `token`, with the value computed from v
ClaimedEntries(token, v) ==
    [key \in DerivedKeys(token) |->
        IF VariantsAt(token, key) # {}
        THEN VariantValue(v, CHOOSE i \in VariantsAt(token, key) :
                                 \A j \in VariantsAt(token, key) : j <= i)
        ELSE BaseValue(token, v)]

\* the keys derived from `token` whose derivation from v is not skipped: none
\* for an unregistered token or an empty value, and no variant key whose
\* variant colour is invalid
EmittedKeys(token, v) ==
    IF token \notin tokens \/ v = "" THEN {}
    ELSE {key \in DerivedKeys(token) :
             \/ key = formattedKey(token)
             \/ \E i \in VariantsAt(token, key) :
                    Transform(variants[i].fn, dye(v), variants[i].name).isValid}

\* the last call was generateTheme({A: v}) on a populated cache, and returned
SingleOverrideOnCache ==
    /\ OverrideCall /\ Returned
    /\ Len(last.arg[1]) = 1
    /\ last.cacheBefore # Undefined

\* C4 as stated: generateTheme({A: v}) after a no-argument call returns the
\* cached schema with every key derived from A (base key and, for a scoped A,
\* each variant key) replaced by the value computed from v, and every other key
\* as cached.
C4_Original ==
    SingleOverrideOnCache =>
        last.result[1] = Spread(last.cacheBefore[1],
                                ClaimedEntries(last.arg[1][1].token, last.arg[1][1].value))

\* C4 amended: generateTheme({A: v}) after a no-argument call returns the
\* cached schema with exactly those keys derived from A replaced whose
\* derivation from v is not skipped (A registered, v non-empty; the base key,
\* and each variant key whose variant colour is valid); every other key,
\* the skipped keys of A included, keeps its cached value.
C4_OverrideMerge ==
    SingleOverrideOnCache =>
        LET A == last.arg[1][1].token
            v == last.arg[1][1].value
            claimed == ClaimedEntries(A, v)
        IN  last.result[1] =
                Spread(last.cacheBefore[1], [key \in EmittedKeys(A, v) |-> claimed[key]])

\* an override of a scoped token that replaced its base key and left a cached
\* variant key in place because that variant's derivation was skipped
C4_Witness ==
    /\ SingleOverrideOnCache
    /\ LET A == last.arg[1][1].token
           v == last.arg[1][1].value
       IN  /\ formattedKey(A) \in EmittedKeys(A, v)
           /\ last.result[1][formattedKey(A)] # last.cacheBefore[1][formattedKey(A)]
           /\ \E key \in DerivedKeys(A) \ EmittedKeys(A, v) :
                  /\ key \in DOMAIN last.cacheBefore[1]
                  /\ last.result[1][key] = last.cacheBefore[1][key]

\* the override of the last call is not empty and gives valid colours to
\* registered tokens only
CleanOverride ==
    /\ last.arg[1] # <<>>
    /\ \A i \in 1..Len(last.arg[1]) :
           last.arg[1][i].token \in tokens /\ last.arg[1][i].value \in Parsable

\* C5 as stated (read for overrides that give valid colours to registered
\* tokens): whatever the state of the instance, the result of
\* generateTheme(overrides) holds, for every registered token that is not in
\* the override, has a valid colour in the base mapping and shares its key
\* with no key derived from the override, the token's base key with the value
\* derived from the base mapping.
C5_Original ==
    (OverrideCall /\ Returned /\ CleanOverride) =>
        \A i \in 1..Len(last.colorsBefore) :
            LET token == last.colorsBefore[i].token
                value == last.colorsBefore[i].value
            IN  (/\ token \in tokens /\ token \notin KeySet(last.arg[1])
                 /\ value \in Parsable
                 /\ \A k \in 1..Len(last.arg[1]) :
                        formattedKey(token) \notin DerivedKeys(last.arg[1][k].token))
                    => /\ formattedKey(token) \in DOMAIN last.result[1]
                       /\ last.result[1][formattedKey(token)] = BaseValue(token, value)

-----------------------------------------------------------------------------
(* The derivations of one build, stated independently of the loop. *)

\* the positions of mapping m whose token is registered and has a colour
Live(m) == {j \in 1..Len(m) : m[j].token \in tokens /\ m[j].value # ""}

\* the (position, variant) pairs of m that yield a variant entry
LiveVariants(m) ==
    {p \in Live(m) \X (1..Len(variants)) :
        /\ isColorScopedToken(m[p[1]].token)
        /\ Transform(variants[p[2]].fn, dye(m[p[1]].value), variants[p[2]].name).isValid}

\* every entry a build of m derives: where (token position, then 0 for the base
\* entry or the variant's position), under which key, with which value
Derivations(m) ==
    {[pos |-> j, ord |-> 0, key |-> formattedKey(m[j].token),
      value |-> BaseValue(m[j].token, m[j].value)] : j \in Live(m)}
    \cup
    {[pos |-> p[1], ord |-> p[2],
      key |-> formattedVariantKey(m[p[1]].token, variants[p[2]].name),
      value |-> VariantValue(m[p[1]].value, p[2])] : p \in LiveVariants(m)}

\* d is derived before e
Before(d, e) == d.pos < e.pos \/ (d.pos = e.pos /\ d.ord < e.ord)

\* the value of the last derivation of m under `key`
LastValue(m, key) ==
    (CHOOSE d \in Derivations(m) :
        /\ d.key = key
        /\ \A e \in Derivations(m) : e.key = key => ~Before(d, e)).value

\* a derivation of m later than the base entry of position j has the same key
Overwritten(m, j) ==
    \E e \in Derivations(m) :
        /\ e.key = formattedKey(m[j].token)
        /\ Before([pos |-> j, ord |-> 0], e)

\* the last call was the first no-argument build, and it returned
FirstBuild == NoArgCall /\ Returned /\ last.cacheBefore = Undefined

-----------------------------------------------------------------------------
(* C6..C8: base entries, variant entries, scope. *)

\* C6 as stated: the first no-argument generateTheme() contains, for every
\* registered token whose base value is a valid colour, the formatted base key
\* mapped to serializer(parsed base colour, token).
C6_Original ==
    FirstBuild =>
        \A j \in 1..Len(last.processed[1]) :
            LET token == last.processed[1][j].token
                value == last.processed[1][j].value
            IN  (token \in tokens /\ value \in Parsable)
                    => /\ formattedKey(token) \in DOMAIN last.result[1]
                       /\ last.result[1][formattedKey(token)] = BaseValue(token, value)

\* C6 amended: the first no-argument generateTheme() contains, for every
\* registered token whose base value is a valid colour, the formatted base key;
\* it is mapped to serializer(parsed base colour, token) unless a derivation
\* later in the processing order yields the same formatted key, and then to
\* that later derivation's value.
C6_BaseEntries ==
    FirstBuild =>
        \A j \in 1..Len(last.processed[1]) :
            LET m     == last.processed[1]
                token == m[j].token
                value == m[j].value
                key   == formattedKey(token)
            IN  (token \in tokens /\ value \in Parsable)
                    => /\ key \in DOMAIN last.result[1]
                       /\ last.result[1][key] = LastValue(m, key)
                       /\ ~Overwritten(m, j) => last.result[1][key] = BaseValue(token, value)

\* a first build in which one valid token keeps its own serialized colour and
\* another valid token's base key was overwritten by a later derivation
C6_Witness ==
    /\ FirstBuild
    /\ LET m == last.processed[1] IN
       /\ \E j \in 1..Len(m) :
              /\ m[j].token \in tokens /\ m[j].value \in Parsable /\ ~Overwritten(m, j)
              /\ last.result[1][formattedKey(m[j].token)] = BaseValue(m[j].token, m[j].value)
       /\ \E j \in 1..Len(m) :
              /\ m[j].token \in tokens /\ m[j].value \in Parsable /\ Overwritten(m, j)
              /\ last.result[1][formattedKey(m[j].token)] # BaseValue(m[j].token, m[j].value)

\* the colour level of the base colour of the entry at position j of m
BaseLevel(m, j) == dye(m[j].value).l

\* the entry of m for `token`, when m has one
PositionOf(m, token) == CHOOSE j \in 1..Len(m) : m[j].token = token

\* C7 as stated: for every registered token that ends with "." and a
\* configured scope suffix, the first generateTheme() contains one derived key
\* per configured variant, mapped to a colour different from the token's base
\* colour (no transform of the model is the identity).
C7_Original ==
    FirstBuild =>
        \A token \in {t \in tokens : isColorScopedToken(t)} :
            \A i \in 1..Len(variants) :
                LET key == formattedVariantKey(token, variants[i].name)
                    m   == last.processed[1]
                IN  /\ key \in DOMAIN last.result[1]
                    /\ token \in KeySet(m) =>
                           last.result[1][key].l # BaseLevel(m, PositionOf(m, token))

\* C7 amended: for every registered scoped token that the base mapping holds
\* with a non-empty value, the first generateTheme() contains one derived key
\* for each configured variant whose transform yields a valid colour; the key
\* holds the value of the last derivation with that key, which is
\* serializer(variant colour, variant name) when no later derivation has the
\* same key, so its colour differs from the base colour exactly when the
\* transform changes the colour (lighten leaves white unchanged).
C7_VariantEntries ==
    FirstBuild =>
        \A p \in LiveVariants(last.processed[1]) :
            LET m      == last.processed[1]
                key    == formattedVariantKey(m[p[1]].token, variants[p[2]].name)
                colour == Transform(variants[p[2]].fn, dye(m[p[1]].value),
                                    variants[p[2]].name)
                later  == \E e \in Derivations(m) :
                              e.key = key /\ Before([pos |-> p[1], ord |-> p[2]], e)
            IN  /\ key \in DOMAIN last.result[1]
                /\ last.result[1][key] = LastValue(m, key)
                /\ ~later => /\ last.result[1][key] = VariantValue(m[p[1]].value, p[2])
                             /\ last.result[1][key].l = colour.l

\* a first build with a variant entry whose colour differs from the base
\* colour and a variant entry whose colour equals it
C7_Witness ==
    /\ FirstBuild
    /\ LET m == last.processed[1] IN
       /\ \E p \in LiveVariants(m) :
              last.result[1][formattedVariantKey(m[p[1]].token, variants[p[2]].name)].l
                  # BaseLevel(m, p[1])
       /\ \E p \in LiveVariants(m) :
              /\ VariantValue(m[p[1]].value, p[2]).l = BaseLevel(m, p[1])
              /\ last.result[1][formattedVariantKey(m[p[1]].token, variants[p[2]].name)].l
                     = BaseLevel(m, p[1])

\* the scope suffixes in force: the configured list when one was given, the
\* default four otherwise
ConfiguredSuffixes ==
    IF options.scope = Undefined THEN {"bg", "fg", "foreground", "background"}
    ELSE {options.scope[1][i] : i \in 1..Len(options.scope[1])}

\* the token ends with "." and a suffix in force
HasScopeSuffix(token) == Len(token) >= 2 /\ token[Len(token)] \in ConfiguredSuffixes

-----------------------------------------------------------------------------
(* C9, C10: strict and non-strict handling of the skip conditions. *)

\* the variant positions whose transform of the colour at position j of m is
\* invalid, for a registered scoped token with a colour
InvalidVariants(m, j) ==
    IF j \in Live(m) /\ isColorScopedToken(m[j].token)
    THEN {i \in 1..Len(variants) :
             ~Transform(variants[i].fn, dye(m[j].value), variants[i].name).isValid}
    ELSE {}

\* the entry at position j of m meets a warn condition: its token is
\* unregistered, its value is empty, or one of its variants is invalid
Offends(m, j) == j \notin Live(m) \/ InvalidVariants(m, j) # {}

\* the number of warn conditions a build of m meets
Conditions(m) ==
    Cardinality((1..Len(m)) \ Live(m)) +
    Cardinality({p \in (1..Len(m)) \X (1..Len(variants)) : p[2] \in InvalidVariants(m, p[1])})

\* the first position of m that meets a warn condition
FirstOffender(m) ==
    CHOOSE j \in 1..Len(m) : Offends(m, j) /\ \A k \in 1..(j - 1) : ~Offends(m, k)

\* the position of the variant called `name`
VariantIndex(name) == CHOOSE i \in 1..Len(variants) : variants[i].name = name

\* the serialized entry s was made before the build of m met its first warn
\* condition
BeforeFirstOffender(m, s) ==
    LET f == FirstOffender(m)
        j == PositionOf(m, s.token)
    IN  \/ j < f
        \/ /\ j = f
           /\ j \in Live(m)
           /\ \/ s.kind = "base"
              \/ \A i \in InvalidVariants(m, f) : VariantIndex(s.name) < i

\* C9: in strict mode a build that meets a warn condition raises: it returns
\* no schema, logs nothing, serializes nothing after the offending token or
\* variant, and leaves the cache as it was before the call.
C9_StrictRaises ==
    (StrictMode /\ last.processed # Undefined
        /\ \E j \in 1..Len(last.processed[1]) : Offends(last.processed[1], j)) =>
        /\ last.raised
        /\ last.result = Undefined
        /\ last.logged = <<>>
        /\ baseColorSchema = last.cacheBefore
        /\ \A i \in 1..Len(last.serialized) :
               BeforeFirstOffender(last.processed[1], last.serialized[i])

\* a failed first no-argument build in strict mode that had serialized tokens
\* before the offending one, the mapping holding a token after it, and that
\* left the cache empty
C9_Witness ==
    /\ StrictMode /\ NoArgCall /\ last.raised
    /\ last.serialized # <<>>
    /\ FirstOffender(last.processed[1]) < Len(last.processed[1])
    /\ last.cacheBefore = Undefined /\ baseColorSchema = Undefined

\* C10: without strict mode generateTheme never raises for a warn condition:
\* it logs one warning per condition, returns a schema, derives nothing from
\* an offending token or variant, and the schema holds the key of every other
\* derivation (on top of the cached keys when a cache exists).
C10_NonStrictCompletes ==
    (~StrictMode /\ last.op = "generateTheme" /\ last.processed # Undefined) =>
        LET m == last.processed[1]
            cached == IF last.cacheBefore = Undefined THEN {}
                      ELSE DOMAIN last.cacheBefore[1]
        IN  /\ ~last.raised
            /\ last.result # Undefined
            /\ Len(last.logged) = Conditions(m)
            /\ \A i \in 1..Len(last.logged) : last.logged[i].level = "warn"
            /\ DOMAIN last.result[1] = cached \cup {d.key : d \in Derivations(m)}
            /\ \A i \in 1..Len(last.serialized) :
                   \E d \in Derivations(m) :
                       /\ d.key = last.serialized[i].key
                       /\ m[d.pos].token = last.serialized[i].token
                       /\ (d.ord = 0) <=> (last.serialized[i].kind = "base")

\* a non-strict build without a cache that warned about an unregistered token
\* and about an invalid variant, and still holds the entries of a later token
C10_Witness ==
    /\ ~StrictMode /\ OverrideCall /\ last.cacheBefore = Undefined
    /\ last.arg[1] = << Entry(<<"invalid", "token">>, "#333333"),
                        Entry(<<"text", "fg">>, "#000000") >>
    /\ Len(last.logged) = 2
    /\ formattedKey(<<"text", "fg">>) \in DOMAIN last.result[1]
    /\ formattedVariantKey(<<"text", "fg">>, "lighter") \in DOMAIN last.result[1]
    /\ formattedVariantKey(<<"text", "fg">>, "custom") \notin DOMAIN last.result[1]

-----------------------------------------------------------------------------
(* C11, C12: the formatted keys. *)

RECURSIVE DotsReplaced(_, _)
\* the token's text with every "." replaced by d, taken from its last segment
\* backwards
DotsReplaced(token, d) ==
    IF Len(token) = 1 THEN token[1]
    ELSE DotsReplaced(SubSeq(token, 1, Len(token) - 1), d) \o d \o token[Len(token)]

\* prefix + token with every "." replaced by the divider
BaseForm(token) == prefix \o DotsReplaced(token, divider)

\* the base form followed by divider + variant name
VariantForm(token, name) == BaseForm(token) \o divider \o name

\* the configured variant names
VariantNames == {variants[i].name : i \in 1..Len(variants)}

\* C11 as stated: every key a call derives, and every key of a schema it
\* returns, is prefix + token with every "." replaced by the divider, followed
\* for a variant by divider + variant name; with prefix "--" and divider "-"
\* token "accent.fg" gives "--accent-fg" and its variant "lighter" gives
\* "--accent-fg-lighter"; with the defaults the base key equals the token.
C11_Original ==
    /\ \A i \in 1..Len(last.serialized) :
           LET s == last.serialized[i] IN
           /\ s.kind = "base" => s.key = BaseForm(s.token)
           /\ s.kind = "variant" => s.key = VariantForm(s.token, s.name)
           /\ (prefix = "--" /\ divider = "-" /\ s.token = <<"accent", "fg">>) =>
                  /\ s.kind = "base" => s.key = "--accent-fg"
                  /\ (s.kind = "variant" /\ s.name = "lighter") =>
                         s.key = "--accent-fg-lighter"
           /\ (options.output = Undefined /\ s.kind = "base") =>
                  s.key = DotsReplaced(s.token, ".")
    /\ (Returned /\ last.result # Undefined) =>
           \A key \in DOMAIN last.result[1] :
               \E token \in tokens :
                   \/ key = BaseForm(token)
                   \/ \E name \in VariantNames : key = VariantForm(token, name)

\* the instance was constructed with the Quick Start configuration: colors
\* {"button.bg", "text.fg"}, scope ["bg", "fg"], no variants and no serializer
\* given, output prefix "--" and divider "-"
IsQuickStart ==
    /\ Keys(options.colors) = << <<"button", "bg">>, <<"text", "fg">> >>
    /\ \A i \in 1..2 : options.colors[i].value \in {"#3366ff", "#333333"}
    /\ options.scope = Some(<<"bg", "fg">>)
    /\ options.variants = Undefined
    /\ options.output # Undefined
    /\ options.output[1].prefix = Some("--")
    /\ options.output[1].divider = Some("-")

\* C12: with the Quick Start configuration and the mapping as it was given to
\* the constructor, generateTheme() returns, in strict mode too, a schema
\* whose keys are exactly --button-bg, --button-bg-lighter, --button-bg-darker,
\* --text-fg, --text-fg-lighter and --text-fg-darker.
C12_SixKeys ==
    (IsQuickStart /\ NoArgCall /\ mutations = 0) =>
        /\ ~last.raised
        /\ DOMAIN last.result[1] =
               {"--button-bg", "--button-bg-lighter", "--button-bg-darker",
                "--text-fg", "--text-fg-lighter", "--text-fg-darker"}

\* the first generateTheme() of a strict Quick Start instance, which built and
\* returned a schema of six entries
C12_Witness ==
    /\ IsQuickStart /\ StrictMode /\ FirstBuild /\ mutations = 0
    /\ Len(last.serialized) = 6
    /\ Cardinality(DOMAIN last.result[1]) = 6

-----------------------------------------------------------------------------
(* C13..C15: parseFromJson. *)

\* the last call was parseFromJson
JsonCall == last.op = "parseFromJson"

\* the text is not valid JSON: of the texts given to parseFromJson, the object
\* that ends after the colon of its first member
NotJson(json) == json = "{\"button.bg\":"

\* the text is valid JSON that denotes an object of colour strings
DenotesMapping(json) ==
    json \in { "{\"button.bg\":\"#000000\"}",
               "{\"invalid.token\":\"#333333\",\"text.fg\":\"#000000\"}" }

\* C13 as stated: without strict mode, parseFromJson called with text that is
\* not valid JSON logs an error through the logger and returns an empty
\* mapping, no failure reaches the caller, and the cache is unchanged.
C13_Original ==
    (JsonCall /\ NotJson(last.json) /\ ~StrictMode) =>
        /\ ~last.raised
        /\ last.result = Some(EmptySchema)
        /\ Len(last.logged) = 1
        /\ last.logged[1].level = "error"
        /\ baseColorSchema = last.cacheBefore

\* the schema an override build of mapping m returns on cache `cache`: the
\* value of the last derivation under each derived key, on top of the cached
\* entries when a cache exists
OverrideResult(m, cache) ==
    LET derived == [key \in {d.key : d \in Derivations(m)} |-> LastValue(m, key)]
    IN  IF cache = Undefined THEN derived ELSE Spread(cache[1], derived)

\* the last call handed a mapping to a build: generateTheme(overrides), or
\* parseFromJson of a text that denotes a mapping
MappingCall == OverrideCall \/ (JsonCall /\ DenotesMapping(last.json))

NoBaseSchemaText ==
    "No base color schema provided. Some colors may not be validated correctly. "
        \o "Consider using a base color schema."

\* the positions of the last call's log that hold the 'no base color schema'
\* warning
NoBaseSchemaWarnings ==
    {i \in 1..Len(last.logged) :
        last.logged[i] = [level |-> "warn", message |-> NoBaseSchemaText]}

\* C15: parseFromJson of a text that denotes a mapping emits the 'no base
\* color schema' warning exactly when no cache exists at the time of the call:
\* then it is emitted once, before any token is processed (it is the first
\* entry of the log, or, through the strict logger, the error that ends the
\* call before any token is serialized); once a cache exists the call emits no
\* such warning; generateTheme never emits it.
C15_WarnsWithoutCache ==
    /\ (JsonCall /\ DenotesMapping(last.json) /\ last.cacheBefore = Undefined) =>
           IF StrictMode
           THEN /\ last.raised
                /\ last.error = "[Theme-Manager]: " \o NoBaseSchemaText
                /\ last.processed = Undefined
                /\ last.serialized = <<>>
           ELSE /\ NoBaseSchemaWarnings = {1}
                /\ last.processed # Undefined
    /\ (JsonCall /\ last.cacheBefore # Undefined) =>
           /\ NoBaseSchemaWarnings = {}
           /\ last.error # "[Theme-Manager]: " \o NoBaseSchemaText
    /\ last.op = "generateTheme" =>
           /\ NoBaseSchemaWarnings = {}
           /\ last.error # "[Theme-Manager]: " \o NoBaseSchemaText

\* a parseFromJson call without a cache that logged the warning first and a
\* token's warning after it, in an instance whose cache is populated later
C15_Witness ==
    /\ JsonCall /\ ~StrictMode /\ last.cacheBefore = Undefined
    /\ NoBaseSchemaWarnings = {1}
    /\ Len(last.logged) > 1
    /\ last.serialized # <<>>

-----------------------------------------------------------------------------
(* C16: the Token Registry. *)

\* the keys of the mapping the constructor was given
ConstructionKeys == KeySet(options.colors)

\* the tokens the last call serialized an entry for
SerializedTokens == {last.serialized[i].token : i \in 1..Len(last.serialized)}

\* the last call logged, as a warning, that `token` is not in the registry
RejectionLogged(token) ==
    \E i \in 1..Len(last.logged) :
        last.logged[i] = [level |-> "warn",
                          message |-> "Token " \o DotsReplaced(token, ".")
                                         \o " is not in the registry. Skipping..."]

\* the registry is the set of construction keys, and the last call accepted
\* exactly the tokens of that set: it derived nothing from any other token of
\* the mapping it processed and rejected each (a warning, or a raise in strict
\* mode), and without strict mode it derived a base entry from every token of
\* the set that the mapping holds with a colour
RegistryIsConstructionKeys ==
    /\ tokens = ConstructionKeys
    /\ SerializedTokens \subseteq ConstructionKeys
    /\ last.processed # Undefined =>
           LET m == last.processed[1] IN
           /\ (\E j \in 1..Len(m) : m[j].token \notin ConstructionKeys) =>
                  IF StrictMode THEN last.raised
                  ELSE \A j \in 1..Len(m) :
                           m[j].token \notin ConstructionKeys => RejectionLogged(m[j].token)
           /\ ~StrictMode =>
                  \A j \in 1..Len(m) :
                      (m[j].token \in ConstructionKeys /\ m[j].value # "") =>
                          m[j].token \in SerializedTokens

\* C16: the Token Registry is the set of keys of the base colour mapping at
\* construction time and no step changes it: every call rejects a token outside
\* it and registers none, and keys added to or removed from the input mapping
\* after construction do not change which tokens are accepted.
C16_RegistryFixed ==
    [](RegistryIsConstructionKeys) /\ [][tokens' = tokens]_vars

\* a build of the input mapping made after the caller added a key to it: the
\* added token was rejected and the original tokens were accepted
C16_Witness ==
    /\ NoArgCall /\ Returned /\ last.processed # Undefined
    /\ mutations > 0
    /\ KeySet(last.processed[1]) \ ConstructionKeys # {}
    /\ SerializedTokens # {}
    /\ \A token \in KeySet(last.processed[1]) \ ConstructionKeys :
           RejectionLogged(token) /\ token \notin SerializedTokens

-----------------------------------------------------------------------------
(* C17: custom variants. *)

\* the names of the variants given to the constructor
SuppliedNames ==
    {options.variants[1][i].name : i \in 1..Len(options.variants[1])}

\* the names of the built-in variants
BuiltinNames == {"lighter", "darker"}

\* the formatted base keys of the registered tokens
BaseKeys == {formattedKey(token) : token \in tokens}

\* C17: when variants are given to the constructor they replace the built-in
\* ones: a call applies the given transforms only, every variant entry it
\* derives is named by a given variant, every key of a returned schema is a
\* base key or the variant key of a given name, and no "lighter" or "darker"
\* variant key appears (other than as the base key of a registered token)
\* unless a variant of that name was given.
C17_CustomVariantsReplace ==
    options.variants # Undefined =>
        /\ \A i \in 1..Len(last.transformed) :
               last.transformed[i].variant \in SuppliedNames
        /\ \A i \in 1..Len(last.serialized) :
               last.serialized[i].kind = "variant" =>
                   last.serialized[i].name \in SuppliedNames
        /\ (Returned /\ last.result # Undefined) =>
               /\ \A key \in DOMAIN last.result[1] \ BaseKeys :
                      \E token \in tokens, name \in SuppliedNames :
                          key = formattedVariantKey(token, name)
               /\ \A token \in tokens, name \in BuiltinNames \ SuppliedNames :
                      formattedVariantKey(token, name) \notin DOMAIN last.result[1] \ BaseKeys

\* a first build with the variants "lighter" and "custom" given: a scoped
\* token has its "lighter" and its "custom" key and no "darker" key
C17_Witness ==
    /\ options.variants # Undefined /\ FirstBuild
    /\ SuppliedNames = {"lighter", "custom"}
    /\ \E token \in tokens :
           /\ isColorScopedToken(token)
           /\ formattedVariantKey(token, "lighter") \in DOMAIN last.result[1]
           /\ formattedVariantKey(token, "custom") \in DOMAIN last.result[1]
           /\ formattedVariantKey(token, "darker") \notin DOMAIN last.result[1]

-----------------------------------------------------------------------------
(* C18..C20: invalid variant colours, unparsable base colours, empty values. *)

\* the last call derived the base entry of `token`
BaseSerialized(token) ==
    \E i \in 1..Len(last.serialized) :
        last.serialized[i].kind = "base" /\ last.serialized[i].token = token

\* the last call derived the entry of `token` for the variant called `name`
VariantSerialized(token, name) ==
    \E i \in 1..Len(last.serialized) :
        /\ last.serialized[i].kind = "variant"
        /\ last.serialized[i].token = token
        /\ last.serialized[i].name = name

\* how often the last call logged `message` as a warning
Warnings(message) ==
    Cardinality({i \in 1..Len(last.logged) :
                    last.logged[i] = [level |-> "warn", message |-> message]})

\* the warning about an invalid variant colour
InvalidVariantText(token, name) ==
    "Variant " \o name \o " for token " \o DotsReplaced(token, ".")
        \o " produced invalid color. Skipping..."

\* the last call was a build without strict mode
NonStrictBuild == ~StrictMode /\ last.processed # Undefined

\* C18: when, without strict mode, a variant transform yields an invalid
\* colour for a scoped token, the build derives no entry for that variant and
\* logs one warning about it, and its key is not in the schema built in that
\* call unless another derivation has the same key; the token's base entry,
\* the entries of its valid variants and the entries of every other token with
\* a colour, later ones included, are derived and their keys are in the result.
C18_InvalidVariantSkipped ==
    NonStrictBuild =>
        LET m == last.processed[1] IN
        \A j \in 1..Len(m) : \A i \in InvalidVariants(m, j) :
            LET token == m[j].token
                name  == variants[i].name
                key   == formattedVariantKey(token, name)
            IN  /\ ~last.raised
                /\ ~VariantSerialized(token, name)
                /\ Warnings(InvalidVariantText(token, name)) = 1
                /\ (last.cacheBefore = Undefined
                        /\ key \notin {d.key : d \in Derivations(m)})
                       => key \notin DOMAIN last.result[1]
                /\ BaseSerialized(token)
                /\ formattedKey(token) \in DOMAIN last.result[1]
                /\ \A k \in (1..Len(variants)) \ InvalidVariants(m, j) :
                       /\ VariantSerialized(token, variants[k].name)
                       /\ formattedVariantKey(token, variants[k].name)
                              \in DOMAIN last.result[1]
                /\ \A d \in Derivations(m) :
                       /\ d.key \in DOMAIN last.result[1]
                       /\ IF d.ord = 0 THEN BaseSerialized(m[d.pos].token)
                          ELSE VariantSerialized(m[d.pos].token, variants[d.ord].name)

\* a build without cache and without strict mode in which one variant of a
\* scoped token was invalid and another one valid, followed by a token with a
\* colour: only the invalid variant's key is missing
C18_Witness ==
    /\ NonStrictBuild /\ last.cacheBefore = Undefined
    /\ LET m == last.processed[1] IN
       \E j \in 1..Len(m) :
           /\ InvalidVariants(m, j) # {}
           /\ InvalidVariants(m, j) # 1..Len(variants)
           /\ \E k \in (j + 1)..Len(m) : k \in Live(m) /\ BaseSerialized(m[k].token)
           /\ \A i \in InvalidVariants(m, j) :
                  formattedVariantKey(m[j].token, variants[i].name)
                      \notin DOMAIN last.result[1]
           /\ Len(last.logged) = Cardinality(InvalidVariants(m, j))

\* the entry at position j of m gives a registered token a value that is not
\* empty and that no parser accepts
Unparsable(m, j) ==
    m[j].token \in tokens /\ m[j].value # "" /\ m[j].value \notin Parsable

\* the warning about an unregistered token, and the one about an empty value
NotRegisteredText(token) ==
    "Token " \o DotsReplaced(token, ".") \o " is not in the registry. Skipping..."

NoColorText(token) ==
    "Token " \o DotsReplaced(token, ".") \o " has no color. Skipping..."

\* the number of warnings the last call logged about `token`
WarningsAbout(token) ==
    Warnings(NotRegisteredText(token)) + Warnings(NoColorText(token))
        + Cardinality({i \in 1..Len(last.logged) :
              \E name \in VariantNames :
                  last.logged[i] = [level |-> "warn",
                                    message |-> InvalidVariantText(token, name)]})

\* the last call derived the base entry of the token at position j of m from
\* the (invalid) colour of its value, with the token as the serializer's name
BaseSerializedFrom(m, j) ==
    \E i \in 1..Len(last.serialized) :
        last.serialized[i] = [kind |-> "base", token |-> m[j].token,
                              key |-> formattedKey(m[j].token),
                              c |-> [isValid |-> FALSE, l |-> 0],
                              name |-> DotsReplaced(m[j].token, ".")]

Empty(m, j) == m[j].token \in tokens /\ m[j].value = ""

\* the keys the last build derived
DerivedInBuild == {d.key : d \in Derivations(last.processed[1])}

\* C20 as stated: a registered token that the processed mapping holds with an
\* empty value is skipped with one 'has no color' warning without strict mode:
\* no base key and no variant key is derived from it, so with an existing
\* cache the result keeps the cached value of each of the token's keys; in
\* strict mode the build fails.
C20_Original ==
    last.processed # Undefined =>
        LET m == last.processed[1] IN
        \A j \in 1..Len(m) : Empty(m, j) =>
            IF StrictMode
            THEN last.raised /\ last.result = Undefined
            ELSE /\ ~last.raised
                 /\ Warnings(NoColorText(m[j].token)) = 1
                 /\ ~BaseSerialized(m[j].token)
                 /\ \A name \in VariantNames : ~VariantSerialized(m[j].token, name)
                 /\ last.cacheBefore # Undefined =>
                        \A key \in DerivedKeys(m[j].token) \cap DOMAIN last.cacheBefore[1] :
                            last.result[1][key] = last.cacheBefore[1][key]

\* C20 amended: a registered token that the processed mapping holds with an empty
\* value is skipped: without strict mode the build logs one 'has no color'
\* warning about it and nothing else, applies no transform to it and derives
\* neither its base entry nor a variant entry, so each of its keys that no
\* other token of the build derives keeps its cached value when a cache
\* exists and is absent from the result otherwise; a strict build raises and
\* returns nothing, with the warning's text as the error when the token is the
\* first that offends.
C20_EmptyValueSkipped ==
    last.processed # Undefined =>
        LET m == last.processed[1] IN
        \A j \in 1..Len(m) : Empty(m, j) =>
            LET token == m[j].token IN
            IF StrictMode
            THEN /\ last.raised
                 /\ last.result = Undefined
                 /\ ~BaseSerialized(token)
                 /\ (\A k \in 1..(j - 1) : ~Offends(m, k)) =>
                        last.error = "[Theme-Manager]: Token " \o DotsReplaced(token, ".")
                                         \o " has no color. "
            ELSE /\ ~last.raised
                 /\ Warnings(NoColorText(token)) = 1
                 /\ WarningsAbout(token) = 1
                 /\ ~BaseSerialized(token)
                 /\ \A name \in VariantNames : ~VariantSerialized(token, name)
                 /\ \A i \in 1..Len(last.transformed) : last.transformed[i].token # token
                 /\ \A key \in DerivedKeys(token) \ DerivedInBuild :
                        IF last.cacheBefore # Undefined /\ key \in DOMAIN last.cacheBefore[1]
                        THEN /\ key \in DOMAIN last.result[1]
                             /\ last.result[1][key] = last.cacheBefore[1][key]
                        ELSE key \notin DOMAIN last.result[1]

\* an override call on a populated cache, without strict mode, that gave one
\* token a new colour and another, scoped one the empty value: the scoped
\* token's base key and variant keys hold their cached values
C20_Witness ==
    /\ NonStrictBuild /\ OverrideCall /\ last.cacheBefore # Undefined
    /\ last.result # last.cacheBefore
    /\ LET m == last.processed[1] IN
       \E j \in 1..Len(m) :
           /\ Empty(m, j)
           /\ isColorScopedToken(m[j].token)
           /\ DerivedKeys(m[j].token) \subseteq DOMAIN last.cacheBefore[1]
           /\ \A key \in DerivedKeys(m[j].token) :
                  last.result[1][key] = last.cacheBefore[1][key]
           /\ Warnings(NoColorText(m[j].token)) = 1

-----------------------------------------------------------------------------
(* C21, C22: the order of the derivations and the serializer's arguments. *)

\* the place of a serialized entry in the processing order of mapping m: the
\* position of its token, then 0 for the base entry or the variant's position
Place(m, s) ==
    [pos |-> PositionOf(m, s.token),
     ord |-> IF s.kind = "base" THEN 0 ELSE VariantIndex(s.name)]

\* the positions of the last call's serialized entries whose key is `key`
SerializedAt(key) == {i \in 1..Len(last.serialized) : last.serialized[i].key = key}

\* the value the serializer returned for the serialized entry s
SerializedValue(s) == Serialize(colorSerializer, s.c, s.name)

\* C21: within one build the entries are derived in the processing order:
\* tokens in the mapping's insertion order, each token's base entry before its
\* variants, variants in their insertion order; when several derivations yield
\* the same formatted key, a returned schema holds for that key the value of
\* the one derived last, and the collision itself is neither logged nor raised
\* (the log holds one warning per skip condition and nothing else).
C21_LaterDerivationWins ==
    last.processed # Undefined =>
        LET m == last.processed[1] IN
        /\ \A i, k \in 1..Len(last.serialized) :
               i < k => Before(Place(m, last.serialized[i]), Place(m, last.serialized[k]))
        /\ Returned =>
               /\ \A key \in DerivedInBuild :
                      /\ key \in DOMAIN last.result[1]
                      /\ last.result[1][key] = LastValue(m, key)
                      /\ \E i \in SerializedAt(key) :
                             /\ \A k \in SerializedAt(key) : k <= i
                             /\ last.result[1][key] = SerializedValue(last.serialized[i])
               /\ ~StrictMode => Len(last.logged) = Conditions(m) + Cardinality(NoBaseSchemaWarnings)
        /\ (last.raised /\ last.op = "generateTheme") =>
               \E j \in 1..Len(m) : Offends(m, j)

\* a build that derived two entries under one key, from a token's base colour
\* and from another token's variant, and returned the value derived later
\* without logging anything
C21_Witness ==
    /\ last.processed # Undefined /\ Returned /\ last.logged = <<>>
    /\ \E i, k \in 1..Len(last.serialized) :
           /\ i < k
           /\ last.serialized[i].key = last.serialized[k].key
           /\ last.serialized[i].kind = "base" /\ last.serialized[k].kind = "variant"
           /\ SerializedValue(last.serialized[i]) # SerializedValue(last.serialized[k])
           /\ last.result[1][last.serialized[k].key] = SerializedValue(last.serialized[k])

\* C22: in every build the serializer is called with (the colour parsed from
\* the token's value, the token as written in the mapping) for a base entry
\* and with (the variant's transform of that same parsed colour, the variant's
\* name) for a variant entry: a variant's colour is a function of the token's
\* base colour and of that variant alone, whatever other variants are
\* configured and wherever it stands among them; a returned schema holds the
\* serializer's value of those arguments under each key derived once.
C22_SerializerArguments ==
    last.processed # Undefined =>
        LET m == last.processed[1] IN
        /\ \A i \in 1..Len(last.serialized) :
               LET s     == last.serialized[i]
                   value == m[PositionOf(m, s.token)].value
               IN  /\ s.token \in KeySet(m)
                   /\ s.kind = "base" =>
                          /\ s.c = dye(value)
                          /\ s.name = DotsReplaced(s.token, ".")
                   /\ s.kind = "variant" =>
                          /\ s.name \in VariantNames
                          /\ s.c = Transform(variants[VariantIndex(s.name)].fn, dye(value),
                                             s.name)
                   /\ (Returned /\ Cardinality(SerializedAt(s.key)) = 1) =>
                          last.result[1][s.key] =
                              IF s.kind = "base"
                              THEN Serialize(colorSerializer, dye(value),
                                             DotsReplaced(s.token, "."))
                              ELSE Serialize(colorSerializer,
                                             Transform(variants[VariantIndex(s.name)].fn,
                                                       dye(value), s.name),
                                             s.name)
        /\ \A i \in 1..Len(last.transformed) :
               /\ last.transformed[i].token \in KeySet(m)
               /\ last.transformed[i].variant \in VariantNames

\* a first build with a serializer that records its second argument and the
\* variants "lighter" then "darker": a scoped token of middle lightness has
\* its base entry tagged with the token, its "lighter" entry one level up and
\* its "darker" entry one level down from the base colour
C22_Witness ==
    /\ FirstBuild /\ colorSerializer = "tagged"
    /\ [i \in 1..Len(variants) |-> variants[i].name] = <<"lighter", "darker">>
    /\ \E j \in 1..Len(last.processed[1]) :
           LET token == last.processed[1][j].token IN
           /\ isColorScopedToken(token)
           /\ dye(last.processed[1][j].value) = [isValid |-> TRUE, l |-> 1]
           /\ last.result[1][formattedKey(token)] =
                  [fmt |-> "tagged", l |-> 1, tag |-> DotsReplaced(token, ".")]
           /\ last.result[1][formattedVariantKey(token, "lighter")] =
                  [fmt |-> "tagged", l |-> 2, tag |-> "lighter"]
           /\ last.result[1][formattedVariantKey(token, "darker")] =
                  [fmt |-> "tagged", l |-> 0, tag |-> "darker"]

-----------------------------------------------------------------------------
(* C23, C24: the strict logger. *)

\* the fragments of the message of the first warn condition a build of m meets
FirstOffenceParts(m) ==
    LET j     == FirstOffender(m)
        token == DotsReplaced(m[j].token, ".")
    IN  IF m[j].token \notin tokens
        THEN <<"Token ", token, " is not in the registry. ", "Skipping...">>
        ELSE IF m[j].value = ""
        THEN <<"Token ", token, " has no color. ", "Skipping...">>
        ELSE LET i == CHOOSE i \in InvalidVariants(m, j) :
                          \A k \in InvalidVariants(m, j) : i <= k
             IN  <<"Variant ", variants[i].name, " for token ", token,
                   " produced invalid color. ", "Skipping...">>

\* the fragments of the message the strict logger was called with in the last
\* call, which raised an Error
RaisedParts ==
    IF JsonCall /\ last.arg = Undefined
    THEN <<"Invalid JSON format. Unable to parse theme.">>
    ELSE IF JsonCall /\ last.cacheBefore = Undefined
    THEN <<NoBaseSchemaText>>
    ELSE FirstOffenceParts(IF JsonCall THEN last.arg[1] ELSE last.processed[1])

\* the message without any fragment that is the text "Skipping..."
Stripped(parts) == SelectSeq(parts, LAMBDA f : f # "Skipping...")

\* the last call ended with an Error raised by the strict logger
StrictRaise == StrictMode /\ last.raised /\ last.error # "SyntaxError"

\* C23 as stated: in strict mode nothing is logged through the logger given at
\* construction, and a warn or error call raises an error whose text is
\* "[Theme-Manager]: " followed by the message without "Skipping...": the text
\* holds no "Skipping...", whatever the token's or the variant's name.
C23_Original ==
    /\ StrictMode => last.logged = <<>>
    /\ StrictRaise => last.error = "[Theme-Manager]: " \o Text(Stripped(RaisedParts))

\* no entry of mapping m meets a warn condition: every token is registered,
\* every value is a colour, every variant colour is valid
Clean(m) == \A j \in 1..Len(m) : ~Offends(m, j) /\ m[j].value \in Parsable

\* C24: in strict mode parseFromJson called before any successful no-argument
\* generateTheme() raises whatever the text is, and never reaches
\* generateTheme: nothing is processed, serialized or transformed and the
\* cache stays empty; for a text that denotes a mapping the error is the 'no
\* base color schema' warning, also when every token is registered and every
\* colour valid.  After a successful no-argument generateTheme(), a text whose
\* mapping meets no warn condition is built and returned.
C24_StrictJsonNeedsCache ==
    (StrictMode /\ JsonCall) =>
        /\ first = Undefined =>
               /\ last.cacheBefore = Undefined
               /\ last.raised
               /\ last.result = Undefined
               /\ last.processed = Undefined
               /\ last.serialized = <<>> /\ last.transformed = <<>>
               /\ last.logged = <<>>
               /\ baseColorSchema = Undefined
               /\ DenotesMapping(last.json) =>
                      last.error = "[Theme-Manager]: " \o NoBaseSchemaText
        /\ (first # Undefined /\ DenotesMapping(last.json) /\ Clean(last.arg[1])) =>
               /\ ~last.raised
               /\ last.processed = last.arg
               /\ last.result = Some(OverrideResult(last.arg[1], last.cacheBefore))

\* a strict parseFromJson call made before any generateTheme(), with a text
\* whose only token is registered and whose colour and variant colours are
\* valid: it raised the 'no base color schema' warning
C24_Witness ==
    /\ StrictMode /\ JsonCall /\ first = Undefined
    /\ DenotesMapping(last.json) /\ Clean(last.arg[1])
    /\ last.raised
    /\ last.error = "[Theme-Manager]: " \o NoBaseSchemaText

-----------------------------------------------------------------------------
(* C25: who populates the cache, and which object each call returns. *)

\* a step in which the cache comes into being
Populates == baseColorSchema = Undefined /\ baseColorSchema' # Undefined

\* a step in which the caller changes, in place, the override result it holds
MutatesHeld == last' = last /\ held # Undefined /\ held' # held

\* what the instance holds and what every later call is computed from
InstanceState == <<config, colors, baseColorSchema, cacheRef>>

\* C25: the cache comes into being only in a no-argument generateTheme() made
\* without a cache, which stores the object it returns; once the cache exists
\* it is the very object the first no-argument call returned, and every
\* no-argument call returns that object; an override call (the empty mapping
\* included) returns an object that is neither, so that the caller changing
\* that object in place changes neither the instance nor the first result.
C25_CacheObject ==
    /\ [](/\ baseColorSchema # Undefined =>
                 /\ cacheRef # NoObject /\ cacheRef = firstRef
                 /\ baseColorSchema = first
          /\ baseColorSchema = Undefined => cacheRef = NoObject
          /\ (NoArgCall /\ Returned) => last.ref = cacheRef
          /\ (OverrideCall /\ Returned) =>
                 /\ last.ref \notin {NoObject, cacheRef, firstRef}
                 /\ held = Some([ref |-> last.ref, schema |-> last.result[1]])
                    \/ held = Some([ref |-> last.ref, schema |-> EmptySchema]))
    /\ [][/\ Populates =>
                 /\ last'.op = "generateTheme" /\ last'.arg = Undefined
                 /\ last'.cacheBefore = Undefined
                 /\ baseColorSchema' = last'.result /\ cacheRef' = last'.ref
          /\ MutatesHeld =>
                 /\ InstanceState' = InstanceState
                 /\ first' = first /\ firstRef' = firstRef]_vars

\* the caller has emptied the result of generateTheme({}) made on a populated
\* cache, a mapping equal to the cache, and the cache still has its keys
C25_Witness ==
    /\ OverrideCall /\ Returned /\ last.arg = Some(<<>>)
    /\ last.cacheBefore # Undefined /\ last.result = last.cacheBefore
    /\ held # Undefined /\ held[1].schema = EmptySchema
    /\ baseColorSchema = last.result /\ baseColorSchema # Some(EmptySchema)

-----------------------------------------------------------------------------
(* C26: an override whose variant is skipped, on a populated cache. *)

\* the last call was an override call without strict mode on a populated cache
OverrideOnCache == NonStrictBuild /\ OverrideCall /\ last.cacheBefore # Undefined

\* C26 as stated: when an override call without strict mode on a populated
\* cache gives a scoped token a colour whose variant is skipped as invalid,
\* the result maps the token's base key to the value derived from the override
\* and the variant's key, when the cache has it, to its cached value.
C26_Original ==
    OverrideOnCache =>
        LET m == last.processed[1] IN
        \A j \in 1..Len(m) : \A i \in InvalidVariants(m, j) :
            LET token == m[j].token
                key   == formattedVariantKey(token, variants[i].name)
            IN  /\ ~last.raised
                /\ formattedKey(token) \in DOMAIN last.result[1]
                /\ last.result[1][formattedKey(token)] = BaseValue(token, m[j].value)
                /\ key \in DOMAIN last.cacheBefore[1] =>
                       /\ key \in DOMAIN last.result[1]
                       /\ last.result[1][key] = last.cacheBefore[1][key]

\* C26 amended: when an override call without strict mode on a populated cache
\* gives a scoped token a colour whose variant is skipped as invalid, the call
\* returns, and the result maps the token's base key to the value derived from
\* the override and the variant's key to its cached value, except that a key
\* which another derivation of the same build yields holds the value of the
\* last such derivation; a variant key that neither the cache nor the build
\* has is absent.
C26_SkippedVariantKeepsCached ==
    OverrideOnCache =>
        LET m == last.processed[1] IN
        \A j \in 1..Len(m) : \A i \in InvalidVariants(m, j) :
            LET token == m[j].token
                base  == formattedKey(token)
                key   == formattedVariantKey(token, variants[i].name)
            IN  /\ ~last.raised
                /\ ~VariantSerialized(token, variants[i].name)
                /\ base \in DOMAIN last.result[1]
                /\ last.result[1][base] =
                       IF Overwritten(m, j) THEN LastValue(m, base)
                       ELSE BaseValue(token, m[j].value)
                /\ IF key \in DerivedInBuild
                   THEN last.result[1][key] = LastValue(m, key)
                   ELSE IF key \in DOMAIN last.cacheBefore[1]
                        THEN /\ key \in DOMAIN last.result[1]
                             /\ last.result[1][key] = last.cacheBefore[1][key]
                        ELSE key \notin DOMAIN last.result[1]

\* an override call on a populated cache gave a scoped token a colour that
\* changed its base key and whose variant was skipped, and the variant's key,
\* which nothing else in the build derived, holds its cached value
C26_Witness ==
    /\ OverrideOnCache
    /\ LET m == last.processed[1] IN
       \E j \in 1..Len(m) : \E i \in InvalidVariants(m, j) :
           LET token == m[j].token
               key   == formattedVariantKey(token, variants[i].name)
           IN  /\ key \in DOMAIN last.cacheBefore[1] /\ key \notin DerivedInBuild
               /\ last.result[1][key] = last.cacheBefore[1][key]
               /\ ~Overwritten(m, j)
               /\ last.result[1][formattedKey(token)] = BaseValue(token, m[j].value)
               /\ last.result[1][formattedKey(token)]
                      # last.cacheBefore[1][formattedKey(token)]
               /\ Warnings(InvalidVariantText(token, variants[i].name)) = 1

-----------------------------------------------------------------------------
(* C27: the empty string as divider or prefix. *)

\* the constructor was given the empty string as divider
EmptyDivider == options.output # Undefined /\ options.output[1].divider = Some("")

\* the constructor was given the empty string as prefix
EmptyPrefix == options.output # Undefined /\ options.output[1].prefix = Some("")

\* the key the serialized entry s would have with prefix p and divider d
KeyWith(s, p, d) ==
    IF s.kind = "base" THEN p \o DotsReplaced(s.token, d)
    ELSE p \o DotsReplaced(s.token, d) \o d \o s.name

=============================================================================
